---- MODULE Spec2Model ----
(***************************************************************************)
(* async-std, src/stream/sum.rs: the Sum trait and its implementations     *)
(* for the integer types, their Wrapping<_> forms and the floats.          *)
(*                                                                         *)
(*   Box::pin(async move { stream.fold($zero, Add::add).await })           *)
(*                                                                         *)
(* A run is one boxed future returned by Sum::sum.  It owns its stream.    *)
(* The run is modelled at the grain of the calls it makes: the first poll  *)
(* builds the fold, the fold requests the next element of the stream, the  *)
(* stream answers Pending, Ready(Some(item)) or Ready(None), the fold      *)
(* combines the item into the accumulator with Add::add, and the async     *)
(* block returns the accumulator once the fold is ready.                   *)
(*                                                                         *)
(* The element types are represented by i8, u8, Wrapping<i8>,              *)
(* Wrapping<u8> and f32.  Integers are TLA+ integers in the type's range.  *)
(* An f32 is a record: a NaN, an infinity, or a finite value with an       *)
(* integer magnitude (the model only feeds integer-valued floats).         *)
(***************************************************************************)
EXTENDS Integers, Sequences, FiniteSets

\* Longest stream of a single run, and of each run of an owned/reference pair.
MaxLen == 3
MaxLenPair == 2

\* Width of i8/u8 in bits, and of the significand of an f32.
Bits == 8
MantBits == 24

VARIABLES
    ty,          \* the element type $a the impl is instantiated for
    checks,      \* the build has overflow checks (debug) or not (release)
    vals,        \* the values the stream is backed by, in production order
    pc,          \* per run: where the boxed future stands
    acc,         \* per run: the fold's accumulator, <<>> before the fold exists
    item,        \* per run: the item the stream handed over, not yet combined
    pos,         \* per run: how many elements the stream has produced
    exhausted,   \* per run: the stream has reported Ready(None)
    outstanding, \* per run: requests issued and not resolved
    reqs,        \* per run: requests issued
    log,         \* per run: the invocations of the combine function, in order
    result,      \* per run: the value the future resolved to, <<>> before
    held         \* per run: the caller still owns the future

vars == <<ty, checks, vals, pc, acc, item, pos, exhausted, outstanding, reqs,
          log, result, held>>

PlainInts == {"i8", "u8"}
WrappingInts == {"Wrapping<i8>", "Wrapping<u8>"}
IntTypes == PlainInts \cup WrappingInts
Signed == {"i8", "Wrapping<i8>"}
Types == IntTypes \cup {"f32"}
Variants == {"owned", "ref"}

RECURSIVE Pow2(_)
Pow2(n) == IF n = 0 THEN 1 ELSE 2 * Pow2(n - 1)

MinOf(t) == IF t \in Signed THEN -Pow2(Bits - 1) ELSE 0
MaxOf(t) == IF t \in Signed THEN Pow2(Bits - 1) - 1 ELSE Pow2(Bits) - 1

----------------------------------------------------------------------------
(* f32 *)

Fin(s, m) == [k |-> "fin", s |-> s, m |-> m]
PosZero == Fin(0, 0)
NegZero == Fin(1, 0)
PosInf == [k |-> "inf", s |-> 0, m |-> 0]
NegInf == [k |-> "inf", s |-> 1, m |-> 0]
NaN == [k |-> "nan", s |-> 0, m |-> 0]

\* The spacing of the floats around the magnitude n: the least power of two q
\* with n < 2^MantBits * q.
RECURSIVE Ulp(_, _)
Ulp(n, q) == IF n < Pow2(MantBits) * q THEN q ELSE Ulp(n, 2 * q)

\* Round the exact magnitude n to the nearest float, ties to the even
\* significand.
RoundNearestEven(n) ==
    LET q == Ulp(n, 1)
        lo == (n \div q) * q
        rem == n - lo
    IN  IF 2 * rem < q THEN lo
        ELSE IF 2 * rem > q THEN lo + q
        ELSE IF (lo \div q) % 2 = 0 THEN lo ELSE lo + q

Signed32(x) == IF x.s = 1 THEN -x.m ELSE x.m

\* a + b of f32, round to nearest.
FloatAdd(a, b) ==
    IF a.k = "nan" \/ b.k = "nan" THEN NaN
    ELSE IF a.k = "inf" /\ b.k = "inf" THEN (IF a.s = b.s THEN a ELSE NaN)
    ELSE IF a.k = "inf" THEN a
    ELSE IF b.k = "inf" THEN b
    ELSE LET e == Signed32(a) + Signed32(b)
         IN  IF e = 0 THEN (IF a.s = 1 /\ b.s = 1 THEN NegZero ELSE PosZero)
             ELSE IF e < 0 THEN Fin(1, RoundNearestEven(-e))
             ELSE Fin(0, RoundNearestEven(e))

----------------------------------------------------------------------------
(* The values a stream of each type is fed with. *)

Values(t) ==
    IF t = "f32" THEN {Fin(0, 1), Fin(0, Pow2(MantBits)), Fin(1, Pow2(MantBits)),
                       NegZero, PosInf, NegInf}
    ELSE IF t \in Signed THEN {MinOf(t), -1, 1, MaxOf(t)}
    ELSE {0, 1, Pow2(Bits - 1), MaxOf(t)}

SeqsUpTo(S, n) == UNION {[1..k -> S] : k \in 0..n}

----------------------------------------------------------------------------
(* The addition of the element type, and the arguments sum passes to fold. *)

\* Two's complement reduction of the exact sum s into the range of t.
WrapInt(t, s) == ((s - MinOf(t)) % Pow2(Bits)) + MinOf(t)

Ok(v) == [ok |-> TRUE, v |-> v]
Panic(v) == [ok |-> FALSE, v |-> v]

\* Mutants of TypeAdd: an addition that saturates, one that yields zero on
\* overflow, and one that checks for overflow whatever the type and build.
TypeAdd_Saturating(t, chk, a, b) ==
    IF t = "f32" THEN Ok(FloatAdd(a, b))
    ELSE IF a + b > MaxOf(t) THEN Ok(MaxOf(t))
    ELSE IF a + b < MinOf(t) THEN Ok(MinOf(t))
    ELSE Ok(a + b)

TypeAdd_ZeroOnOverflow(t, chk, a, b) ==
    IF t = "f32" THEN Ok(FloatAdd(a, b))
    ELSE IF a + b > MaxOf(t) \/ a + b < MinOf(t) THEN Ok(0)
    ELSE Ok(a + b)

TypeAdd_AlwaysChecked(t, chk, a, b) ==
    IF t = "f32" THEN Ok(FloatAdd(a, b))
    ELSE IF a + b > MaxOf(t) \/ a + b < MinOf(t) THEN Panic(a)
    ELSE Ok(a + b)

\* <$a as Add>::add(a, b).  A plain integer overflows by panicking when the
\* build has overflow checks and by wrapping when it has none; Wrapping<_>
\* always wraps; a float rounds.
TypeAdd(t, chk, a, b) ==
    IF t = "f32" THEN Ok(FloatAdd(a, b))
    ELSE IF a + b >= MinOf(t) /\ a + b <= MaxOf(t) THEN Ok(a + b)
    ELSE IF t \in PlainInts /\ chk THEN Panic(a)
    ELSE Ok(WrapInt(t, a + b))

\* What a stream hands over for its i-th element: the value itself, or a
\* reference to the place that holds it.
StreamItem(variant, i) ==
    IF variant = "owned" THEN [own |-> TRUE, v |-> vals[i]]
    ELSE [own |-> FALSE, at |-> i]

\* The value an item stands for: a reference is read through.
Deref(it) == IF it.own THEN it.v ELSE vals[it.at]

\* Mutant of AddItem: the combine function drops the accumulator.
AddItem_KeepsElement(t, chk, a, it) == Ok(Deref(it))

\* The function sum passes to fold: Add::add of $a with $a, or of $a with
\* &$a, which adds the value referred to (|a, b| a + b for the floats).
AddItem(t, chk, a, it) == TypeAdd(t, chk, a, Deref(it))

\* Mutants of ZeroOf: the float impls start from -0.0; the impls over
\* references start from one.
ZeroOf_NegZero(t, variant) == IF t = "f32" THEN NegZero ELSE 0

ZeroOf_RefOne(t, variant) ==
    IF t = "f32" THEN (IF variant = "ref" THEN Fin(0, 1) ELSE PosZero)
    ELSE IF variant = "ref" THEN 1 ELSE 0

\* $zero as each impl passes it to fold: 0, Wrapping(0), 0.0.
ZeroOf(t, variant) == IF t = "f32" THEN PosZero ELSE 0

\* sum as a function of the values: stream.fold($zero, Add::add), stopping at
\* a panic of the addition.
RECURSIVE SumFold(_, _, _, _)
SumFold(t, chk, a, s) ==
    IF s = <<>> THEN Ok(a)
    ELSE LET n == TypeAdd(t, chk, a, Head(s))
         IN  IF n.ok THEN SumFold(t, chk, n.v, Tail(s)) ELSE n

SumValue(t, chk, s) == SumFold(t, chk, ZeroOf(t, "owned"), s)

----------------------------------------------------------------------------
(* Construction: Sum::sum has returned the boxed future, not yet polled. *)

Fresh(R) ==
    /\ pc = [r \in R |-> "start"]
    /\ acc = [r \in R |-> <<>>]
    /\ item = [r \in R |-> <<>>]
    /\ pos = [r \in R |-> 0]
    /\ exhausted = [r \in R |-> FALSE]
    /\ outstanding = [r \in R |-> 0]
    /\ reqs = [r \in R |-> 0]
    /\ log = [r \in R |-> <<>>]
    /\ result = [r \in R |-> <<>>]
    /\ held = [r \in R |-> TRUE]

\* One run, over a stream of owned values or of references.
Init ==
    /\ ty \in Types
    /\ checks \in BOOLEAN
    /\ vals \in SeqsUpTo(Values(ty), MaxLen)
    /\ \E v \in Variants : Fresh({v})

\* Two runs over the same values: one stream of owned values, one of
\* references to them.
InitPair ==
    /\ ty \in Types
    /\ checks \in BOOLEAN
    /\ vals \in SeqsUpTo(Values(ty), MaxLenPair)
    /\ Fresh(Variants)

----------------------------------------------------------------------------
(* The steps of a run r.  A run is named by the variant of its stream. *)

\* Mutants of SumResume: the resumed block builds the fold anew, or asks the
\* stream for another element while the earlier request is unanswered.
SumResume_Reinit(r) ==
    /\ pc[r] = "pending"
    /\ pc' = [pc EXCEPT ![r] = "requested"]
    /\ acc' = [acc EXCEPT ![r] = <<ZeroOf(ty, r)>>]
    /\ UNCHANGED <<ty, checks, vals, item, pos, exhausted, outstanding, reqs,
                   log, result, held>>

SumResume_NewRequest(r) ==
    /\ pc[r] = "pending"
    /\ pc' = [pc EXCEPT ![r] = "requested"]
    /\ reqs' = [reqs EXCEPT ![r] = @ + 1]
    /\ outstanding' = [outstanding EXCEPT ![r] = @ + 1]
    /\ UNCHANGED <<ty, checks, vals, acc, item, pos, exhausted, log, result,
                   held>>

\* Mutant of SumReturn: the block returns the accumulator as it stands when
\* the fold is only pending.
SumReturn_Early(r) ==
    /\ pc[r] \in {"fold_ready", "pending"}
    /\ pc' = [pc EXCEPT ![r] = "done"]
    /\ result' = [result EXCEPT ![r] = acc[r]]
    /\ UNCHANGED <<ty, checks, vals, acc, item, pos, exhausted, outstanding,
                   reqs, log, held>>

\* Mutant of DropFuture: the stream and its fold live on outside the future
\* the caller drops.
DropFuture_Detached(r) ==
    /\ held[r]
    /\ pc[r] \in {"start", "pending"}
    /\ held' = [held EXCEPT ![r] = FALSE]
    /\ UNCHANGED <<ty, checks, vals, pc, acc, item, pos, exhausted,
                   outstanding, reqs, log, result>>

\* The first poll of the boxed future: the async block starts, builds
\* stream.fold($zero, Add::add) and awaits it.
SumStart(r) ==
    /\ pc[r] = "start"
    /\ pc' = [pc EXCEPT ![r] = "polling"]
    /\ acc' = [acc EXCEPT ![r] = <<ZeroOf(ty, r)>>]
    /\ UNCHANGED <<ty, checks, vals, item, pos, exhausted, outstanding, reqs,
                   log, result, held>>

\* The fold asks the stream for its next element.
FoldRequest(r) ==
    /\ pc[r] = "polling"
    /\ pc' = [pc EXCEPT ![r] = "requested"]
    /\ reqs' = [reqs EXCEPT ![r] = @ + 1]
    /\ outstanding' = [outstanding EXCEPT ![r] = @ + 1]
    /\ UNCHANGED <<ty, checks, vals, acc, item, pos, exhausted, log, result,
                   held>>

\* The stream has nothing yet: Pending travels up through the fold and the
\* async block, and the future is suspended with its request in flight.
StreamPending(r) ==
    /\ pc[r] = "requested"
    /\ pc' = [pc EXCEPT ![r] = "pending"]
    /\ UNCHANGED <<ty, checks, vals, acc, item, pos, exhausted, outstanding,
                   reqs, log, result, held>>

\* The future is woken and polled again: the async block resumes at its
\* await and polls the same fold, which polls the stream for the same request.
SumResume(r) ==
    /\ pc[r] = "pending"
    /\ pc' = [pc EXCEPT ![r] = "requested"]
    /\ UNCHANGED <<ty, checks, vals, acc, item, pos, exhausted, outstanding,
                   reqs, log, result, held>>

\* The stream produces its next element.
StreamReadySome(r) ==
    /\ pc[r] = "requested"
    /\ pos[r] < Len(vals)
    /\ ~exhausted[r]
    /\ pc' = [pc EXCEPT ![r] = "got"]
    /\ item' = [item EXCEPT ![r] = <<StreamItem(r, pos[r] + 1)>>]
    /\ pos' = [pos EXCEPT ![r] = @ + 1]
    /\ outstanding' = [outstanding EXCEPT ![r] = @ - 1]
    /\ UNCHANGED <<ty, checks, vals, acc, exhausted, reqs, log, result, held>>

\* The stream reports that it has no more elements; the fold is ready with
\* its accumulator.
StreamReadyNone(r) ==
    /\ pc[r] = "requested"
    /\ pos[r] = Len(vals)
    /\ pc' = [pc EXCEPT ![r] = "fold_ready"]
    /\ exhausted' = [exhausted EXCEPT ![r] = TRUE]
    /\ outstanding' = [outstanding EXCEPT ![r] = @ - 1]
    /\ UNCHANGED <<ty, checks, vals, acc, item, pos, reqs, log, result, held>>

\* The fold combines the item into the accumulator and goes on to the next
\* request; a panic of the addition unwinds out of the poll.
FoldCombine(r) ==
    /\ pc[r] = "got"
    /\ LET n == AddItem(ty, checks, acc[r][1], item[r][1])
       IN  /\ log' = [log EXCEPT ![r] = Append(@,
                        [acc |-> acc[r][1], elem |-> Deref(item[r][1]),
                         ok |-> n.ok, out |-> n.v])]
           /\ IF n.ok
              THEN /\ acc' = [acc EXCEPT ![r] = <<n.v>>]
                   /\ pc' = [pc EXCEPT ![r] = "polling"]
              ELSE /\ acc' = acc
                   /\ pc' = [pc EXCEPT ![r] = "panicked"]
    /\ item' = [item EXCEPT ![r] = <<>>]
    /\ UNCHANGED <<ty, checks, vals, pos, exhausted, outstanding, reqs, result,
                   held>>

\* The await yields the fold's accumulator, the async block returns it and
\* the future resolves.
SumReturn(r) ==
    /\ pc[r] = "fold_ready"
    /\ pc' = [pc EXCEPT ![r] = "done"]
    /\ result' = [result EXCEPT ![r] = acc[r]]
    /\ UNCHANGED <<ty, checks, vals, acc, item, pos, exhausted, outstanding,
                   reqs, log, held>>

\* The caller drops the future between two polls, before it has resolved.
\* The box owns the async block, which owns the stream and the fold: all of
\* it is destroyed.
DropFuture(r) ==
    /\ held[r]
    /\ pc[r] \in {"start", "pending"}
    /\ held' = [held EXCEPT ![r] = FALSE]
    /\ pc' = [pc EXCEPT ![r] = "dropped"]
    /\ UNCHANGED <<ty, checks, vals, acc, item, pos, exhausted, outstanding,
                   reqs, log, result>>

\* The runs that exist: one in Spec, the two variants in SpecPair.
Runs == DOMAIN pc

Next ==
    \/ \E r \in Variants : r \in Runs /\ SumStart(r)
    \/ \E r \in Variants : r \in Runs /\ FoldRequest(r)
    \/ \E r \in Variants : r \in Runs /\ StreamPending(r)
    \/ \E r \in Variants : r \in Runs /\ SumResume(r)
    \/ \E r \in Variants : r \in Runs /\ StreamReadySome(r)
    \/ \E r \in Variants : r \in Runs /\ StreamReadyNone(r)
    \/ \E r \in Variants : r \in Runs /\ FoldCombine(r)
    \/ \E r \in Variants : r \in Runs /\ SumReturn(r)
    \/ \E r \in Variants : r \in Runs /\ DropFuture(r)

Spec == Init /\ [][Next]_vars

SpecPair == InitPair /\ [][Next]_vars

----------------------------------------------------------------------------
(* The claims. *)

\* The zero value of the element type.
TypeZero(t) == IF t = "f32" THEN PosZero ELSE 0

\* ((zero + x1) + x2) + ... + xn in the arithmetic of the element type.
RECURSIVE LeftFold(_, _, _)
LeftFold(t, chk, s) ==
    IF s = <<>> THEN TypeZero(t)
    ELSE TypeAdd(t, chk, LeftFold(t, chk, SubSeq(s, 1, Len(s) - 1)), s[Len(s)]).v

\* x1 + ... + xn in the integers.
RECURSIVE MathSum(_)
MathSum(s) == IF s = <<>> THEN 0 ELSE Head(s) + MathSum(Tail(s))

\* The value of type t whose bit pattern is m, 0 <= m < 2^Bits.
Reinterpret(t, m) == IF t \in Signed /\ m >= Pow2(Bits - 1) THEN m - Pow2(Bits) ELSE m

\* The additions of the type wrap around: a Wrapping<_>, or a plain integer
\* in a build without overflow checks.
WrapSemantics == ty \in WrappingInts \/ (ty \in PlainInts /\ ~checks)

\* C1: for every element type and every finite stream x1..xn, the future
\* returned by sum resolves to the left-to-right fold
\* ((zero + x1) + x2) + ... + xn.
C1_SumIsLeftFold ==
    \A r \in Runs : pc[r] = "done" => result[r] = <<LeftFold(ty, checks, vals)>>

C1_Witness ==
    \E r \in Runs : /\ pc[r] = "done"
                    /\ ty = "i8"
                    /\ vals = <<1, 1, -1>>
                    /\ result[r] = <<1>>

\* C2: sum over an empty stream, one whose first request reports completion,
\* resolves to the zero value of the type, and the addition is never invoked.
C2_EmptyIsZero ==
    \A r \in Runs : pc[r] = "done" /\ vals = <<>> =>
        /\ result[r] = <<TypeZero(ty)>>
        /\ log[r] = <<>>
        /\ reqs[r] = 1

C2_Witness ==
    \E r \in Runs : pc[r] = "done" /\ vals = <<>> /\ ty = "f32" /\ result[r] = <<PosZero>>

\* C3: over the same values in the same order, the sum of the stream of
\* owned values and the sum of the stream of references resolve to the same
\* result, and the two runs combine the same elements with the same
\* accumulators in the same order; neither panics where the other resolves.
C3_OwnedAndRefAgree ==
    Runs = Variants =>
        /\ (result["owned"] # <<>> /\ result["ref"] # <<>>
                => result["owned"] = result["ref"])
        /\ \A i \in 1..Len(log["owned"]) :
               i <= Len(log["ref"]) => log["owned"][i] = log["ref"][i]
        /\ ~(pc["owned"] = "done" /\ pc["ref"] = "panicked")
        /\ ~(pc["ref"] = "done" /\ pc["owned"] = "panicked")
        /\ \A r \in Variants : acc[r] # <<>> /\ log[r] = <<>>
               => acc[r] = <<TypeZero(ty)>>

C3_Witness ==
    /\ Runs = Variants
    /\ pc["owned"] = "done" /\ pc["ref"] = "done"
    /\ Len(vals) = 2
    /\ result["owned"] = result["ref"]
    /\ Len(log["ref"]) = 2

\* C4: over a stream that produces n elements the combine function is invoked
\* exactly n times, the i-th invocation with the accumulator the (i-1)-th
\* left and the i-th element produced; none is combined twice, skipped or
\* combined out of order.
C4_CombineOncePerElement ==
    \A r \in Runs :
        /\ Len(log[r]) = pos[r] - (IF pc[r] = "got" THEN 1 ELSE 0)
        /\ \A i \in 1..Len(log[r]) :
               /\ log[r][i].elem = vals[i]
               /\ log[r][i].acc = (IF i = 1 THEN TypeZero(ty) ELSE log[r][i - 1].out)
        /\ (pc[r] \in {"fold_ready", "done"} => Len(log[r]) = Len(vals))

C4_Witness ==
    \E r \in Runs : pc[r] = "done" /\ Len(vals) >= 3 /\ Len(log[r]) = Len(vals)

\* C5: the future never resolves before the stream has reported completion:
\* wherever the result is available the stream is exhausted and every element
\* it produced has been combined.
C5_ResolvesOnlyAfterExhaustion ==
    \A r \in Runs : result[r] # <<>> =>
        /\ exhausted[r]
        /\ pos[r] = Len(vals)
        /\ Len(log[r]) = pos[r]
        /\ item[r] = <<>>
        /\ outstanding[r] = 0

C5_Witness ==
    \E r \in Runs : result[r] # <<>> /\ exhausted[r] /\ Len(log[r]) >= 2

\* C6: for the fixed-width integer types the result of sum is the
\* mathematical sum reduced modulo 2^Bits and read in the range of the type:
\* no clamping, no saturation; [i8::MAX, 1] yields i8::MIN when the addition
\* wraps.
C6_IntSumIsModular ==
    \A r \in Runs : ty \in IntTypes /\ pc[r] = "done" =>
        result[r] = <<Reinterpret(ty, MathSum(vals) % Pow2(Bits))>>

C6_Witness ==
    \E r \in Runs : /\ pc[r] = "done"
                    /\ ty = "i8"
                    /\ vals = <<127, 1>>
                    /\ result[r] = <<-128>>

\* C7: for a fixed-width integer type whose addition wraps, the sum of S1 ++ S2
\* is the sum of S1 plus the sum of S2, for every way of cutting the stream
\* in two.
C7_SumOfConcat ==
    \A r \in Runs : ty \in IntTypes /\ WrapSemantics /\ pc[r] = "done" =>
        \A k \in 0..Len(vals) :
            LET s1 == SumValue(ty, checks, SubSeq(vals, 1, k))
                s2 == SumValue(ty, checks, SubSeq(vals, k + 1, Len(vals)))
            IN  /\ s1.ok /\ s2.ok
                /\ result[r] = <<TypeAdd(ty, checks, s1.v, s2.v).v>>

C7_Witness ==
    \E r \in Runs : /\ pc[r] = "done"
                    /\ ty = "Wrapping<i8>"
                    /\ vals = <<127, 1, -1>>
                    /\ result[r] = <<127>>

\* C8 as stated: no run of sum ends in a panic, whatever the values,
\* sequences whose running total leaves the range of the type included.
C8_NeverPanics == \A r \in Runs : pc[r] # "panicked"

\* The last invocation of the combine function in run r left the range of
\* the type.
LastAddOverflowed(r) ==
    /\ log[r] # <<>>
    /\ LET l == log[r][Len(log[r])]
       IN  l.acc + l.elem < MinOf(ty) \/ l.acc + l.elem > MaxOf(ty)

\* C8 as amended: a run panics only for a plain integer type in a build with
\* overflow checks, and only in an addition whose exact result leaves the
\* range of the type; every other run that is not dropped can always take a
\* step until the future has resolved, and every request resolves to an
\* element or to the completion signal.
C8_PanicOnlyOnCheckedOverflow ==
    \A r \in Runs :
        /\ pc[r] = "panicked" => ty \in PlainInts /\ checks /\ LastAddOverflowed(r)
        /\ pc[r] \notin {"done", "panicked", "dropped"}
               => ENABLED (SumStart(r) \/ FoldRequest(r) \/ StreamPending(r)
                           \/ SumResume(r) \/ StreamReadySome(r)
                           \/ StreamReadyNone(r) \/ FoldCombine(r) \/ SumReturn(r))
        /\ pc[r] = "done" => result[r] # <<>>

C8_Witness ==
    \E r \in Runs : /\ pc[r] = "panicked"
                    /\ ty = "i8" /\ checks
                    /\ vals = <<127, 1>>

\* C9: once the caller has dropped the future before the stream reported
\* completion, with a request in flight or not, no further request is issued,
\* the combine function is not invoked, the run is not resumed and no result
\* is delivered.
C9_DroppedStaysQuiet ==
    [][\A r \in Runs : ~held[r] =>
          /\ ~exhausted[r] /\ result[r] = <<>>
          /\ reqs'[r] = reqs[r]
          /\ log'[r] = log[r]
          /\ acc'[r] = acc[r]
          /\ pos'[r] = pos[r]
          /\ pc'[r] = pc[r]
          /\ result'[r] = <<>>]_vars

C9_Witness ==
    \E r \in Runs : ~held[r] /\ outstanding[r] = 1 /\ Len(log[r]) >= 1

\* C10: at most one request is outstanding at any time; a request is
\* outstanding only when every element produced before it has been combined,
\* and none is issued after the completion signal.
C10_OneRequestAtATime ==
    \A r \in Runs :
        /\ outstanding[r] \in {0, 1}
        /\ outstanding[r] = 1 => ~exhausted[r] /\ item[r] = <<>> /\ reqs[r] = Len(log[r]) + 1
        /\ exhausted[r] => reqs[r] = Len(vals) + 1 /\ outstanding[r] = 0
        /\ reqs[r] = pos[r] + outstanding[r] + (IF exhausted[r] THEN 1 ELSE 0)

C10_Witness ==
    \E r \in Runs : reqs[r] >= 3 /\ outstanding[r] = 1 /\ pc[r] = "pending"

====
